---- MODULE Spec2Model ----
(***************************************************************************)
(* Model of the caption worker (src/caption/main.go).                      *)
(*                                                                         *)
(* The worker subscribes to one redis channel.  Every message received on  *)
(* the channel is handed to its own goroutine running handleRedis, which   *)
(* decodes the payload, and when the decoded caption is empty calls        *)
(* process (image GET, captioning POST), writes the caption with HSet and  *)
(* publishes the record on the very channel it is subscribed to.           *)
(*                                                                         *)
(* A goroutine is modelled by a task with a program counter; the blocking  *)
(* calls (http.Get, client.Do, HSet, Publish) separate its steps.  An      *)
(* unrecovered panic in any goroutine ends the whole process.              *)
(***************************************************************************)
EXTENDS Integers, Sequences, FiniteSets, TLC

\* ------------------------------------------------------------------ bounds

\* Messages published on the channel by producers other than the worker.
MaxExt == 2
\* Goroutines the model lets the intake loop start.
MaxTasks == 2

Tasks == 1..MaxTasks

\* ------------------------------------------------------------- JSON values

\* A JSON value of a document: a string, a number, a boolean, null, or the
\* key being absent from the object.
JStr(s) == [t |-> "str", s |-> s, n |-> 0, b |-> FALSE]
JNum(n) == [t |-> "num", s |-> "", n |-> n, b |-> FALSE]
JBool(b) == [t |-> "bool", s |-> "", n |-> 0, b |-> b]
JNull == [t |-> "null", s |-> "", n |-> 0, b |-> FALSE]
JAbsent == [t |-> "absent", s |-> "", n |-> 0, b |-> FALSE]

\* A string holding a byte sequence that is not valid UTF-8, and what
\* encoding/json makes of it (each invalid byte becomes U+FFFD) both when it
\* unquotes a JSON string and when it quotes a Go string.
BadUtf8 == "caf\\xE9"
Replaced == "caf\\uFFFD"
ToValidUTF8(s) == IF s = BadUtf8 THEN Replaced ELSE s
ValidUTF8(s) == s # BadUtf8

\* What json.Unmarshal leaves in a Go string / int64 / bool field for a JSON
\* value: the value when the types agree, the zero value otherwise (null and
\* an absent key leave the field alone; a value of another type is skipped
\* and reported as an UnmarshalTypeError once the whole object is read).
StringField(v) == IF v.t = "str" THEN ToValidUTF8(v.s) ELSE ""
IntField(v) == IF v.t = "num" THEN v.n ELSE 0
BoolField(v) == IF v.t = "bool" THEN v.b ELSE FALSE
TypeError(v, type) == v.t \notin {type, "null", "absent"}

\* ----------------------------------------------------------- PhotoMetadata

\* The zero value of PhotoMetadata (var metadata PhotoMetadata).
ZeroMetadata ==
    [ChatId |-> 0, PhotoUrl |-> "", Caption |-> "", StyledUrl |-> "",
     Published |-> FALSE, PhotoId |-> ""]

\* json.Unmarshal([]byte(message.Payload), &metadata): the record it leaves
\* in metadata and whether it returns an error.  A payload that is not
\* syntactically JSON is rejected before anything is stored.
Unmarshal(p) ==
    IF ~p.ok
    THEN [metadata |-> ZeroMetadata, err |-> TRUE]
    ELSE [metadata |->
            [ChatId |-> IntField(p.chat_id),
             PhotoUrl |-> StringField(p.photo_url),
             Caption |-> StringField(p.caption),
             StyledUrl |-> StringField(p.styled_url),
             Published |-> BoolField(p.published),
             PhotoId |-> StringField(p.photo_id)],
          err |-> \/ TypeError(p.chat_id, "num")
                  \/ TypeError(p.photo_url, "str")
                  \/ TypeError(p.caption, "str")
                  \/ TypeError(p.styled_url, "str")
                  \/ TypeError(p.published, "bool")
                  \/ TypeError(p.photo_id, "str")]

\* Marshal with the styled_url key written empty instead of passed through.
MarshalWithoutStyledUrl(m) ==
    [ok |-> TRUE,
     chat_id |-> JNum(m.ChatId),
     photo_url |-> JStr(ToValidUTF8(m.PhotoUrl)),
     caption |-> JStr(ToValidUTF8(m.Caption)),
     styled_url |-> JStr(""),
     published |-> JBool(m.Published),
     photo_id |-> JStr(ToValidUTF8(m.PhotoId))]

\* Marshal with chat_id written as a JSON string (a `,string` tag option).
MarshalChatIdAsString(m) ==
    [ok |-> TRUE,
     chat_id |-> JStr("7"),
     photo_url |-> JStr(ToValidUTF8(m.PhotoUrl)),
     caption |-> JStr(ToValidUTF8(m.Caption)),
     styled_url |-> JStr(ToValidUTF8(m.StyledUrl)),
     published |-> JBool(m.Published),
     photo_id |-> JStr(ToValidUTF8(m.PhotoId))]

\* json.Marshal(&metadata): all six keys, each with the type of its field.
Marshal(m) ==
    [ok |-> TRUE,
     chat_id |-> JNum(m.ChatId),
     photo_url |-> JStr(ToValidUTF8(m.PhotoUrl)),
     caption |-> JStr(ToValidUTF8(m.Caption)),
     styled_url |-> JStr(ToValidUTF8(m.StyledUrl)),
     published |-> JBool(m.Published),
     photo_id |-> JStr(ToValidUTF8(m.PhotoId))]

\* A payload that is not JSON at all.
Malformed ==
    [ok |-> FALSE, chat_id |-> JAbsent, photo_url |-> JAbsent,
     caption |-> JAbsent, styled_url |-> JAbsent, published |-> JAbsent,
     photo_id |-> JAbsent]

Doc(chat, url, cap, styled, pub, id) ==
    [ok |-> TRUE, chat_id |-> chat, photo_url |-> url, caption |-> cap,
     styled_url |-> styled, published |-> pub, photo_id |-> id]

GoodUrl == "https://img.example/1.jpg"
NoHostUrl == "not-a-url"

\* url.Parse(uri).Host for the URLs of the model.
Host(uri) == IF uri = GoodUrl THEN "img.example" ELSE ""

\* The payloads producers publish in the model: a raw record (empty
\* caption), a record with a key of the wrong type and no caption key
\* (decoded in part, with an error), an enriched record, a raw record whose
\* URL has no host, and text that is not JSON.
ExtPayloads ==
    { Doc(JNum(7), JStr(GoodUrl), JStr(""), JStr("s.jpg"), JBool(TRUE), JStr("p1")),
      Doc(JStr("x"), JStr(GoodUrl), JAbsent, JNull, JBool(FALSE), JStr("p1")),
      Doc(JNum(7), JStr(GoodUrl), JStr("a dog running"), JStr("s.jpg"), JBool(TRUE), JStr("p1")),
      Doc(JNum(7), JStr(NoHostUrl), JStr(""), JStr("s.jpg"), JBool(TRUE), JStr("p2")),
      Malformed }

\* ------------------------------------------------------ CaptionApiResponse

\* The zero value of CaptionApiResponse (var captionResponse).
ZeroResponse == [Output |-> "", Job_id |-> 0, Err |-> ""]

ApiDoc(out, job, err) == [ok |-> TRUE, Output |-> out, Job_id |-> job, Err |-> err]

\* A response body that is not JSON (an HTML error page, an empty body).
ApiMalformed == [ok |-> FALSE, Output |-> JAbsent, Job_id |-> JAbsent, Err |-> JAbsent]

\* json.NewDecoder(res.Body).Decode(&captionResponse) on a readable body.
\* The error it returns is logged and otherwise unused, so only the decoded
\* value is kept.
DecodeResponse(b) ==
    IF ~b.ok
    THEN ZeroResponse
    ELSE [Output |-> StringField(b.Output),
          Job_id |-> IntField(b.Job_id),
          Err |-> StringField(b.Err)]

\* The bodies the captioning endpoint answers with in the model.
ApiBodies ==
    { ApiDoc(JStr("a dog running"), JNum(1), JStr("")),
      ApiDoc(JStr("a cat"), JNum(0), JStr("")),
      ApiDoc(JStr(""), JNum(0), JStr("invalid image")),
      ApiDoc(JStr("a cat"), JNum(0), JStr("invalid image")),
      ApiDoc(JStr(""), JNum(0), JStr("")),
      ApiDoc(JStr("a cat"), JStr("x"), JNull),
      ApiMalformed }

\* How an HTTP call of net/http ends: "ok" is a response with a readable
\* body, "nil" an error with a nil *http.Response, "closed" an error with a
\* non-nil response whose body is already closed (a refused redirect).
HttpResults == {"ok", "nil", "closed"}

\* A Go error: <<>> is nil, <<s>> an error whose message is s.
Nil == <<>>
NewError(s) == <<s>>

\* ------------------------------------------------------------------- state

VARIABLES
    key,        \* worker.config.captionApi.key
    phase,      \* "new", "serving" (in the range loop), "fatal", "crashed"
    ch,         \* messages received on the subscription, not yet dispatched
    spawned,    \* goroutines started by the range loop
    pc,         \* where each goroutine stands in handleRedis
    message,    \* message.Payload of each goroutine
    metadata,   \* its local variable metadata
    decodeErr,  \* whether json.Unmarshal returned an error
    photo,      \* resp of process: how http.Get ended, while process runs
    captionResponse, \* what process decoded from the answer of the service
    ret,        \* what process returned to it: [caption, err]
    store,      \* the redis hashes: key -> value of field "caption", if any
    sent,       \* the messages the worker published, in order: [task, payload]
    extCount,   \* messages published by other producers so far
    calls,      \* per goroutine, how often it reached each call
    failed,     \* per goroutine, which of client.Do, HSet and Publish failed
    roundTrip   \* a record on its way through json.Marshal and json.Unmarshal

\* The state of the worker.
workerVars ==
    <<key, phase, ch, spawned, pc, message, metadata, decodeErr, photo,
      captionResponse, ret, store, sent, extCount, calls, failed>>

vars == <<workerVars, roundTrip>>

\* The keys HSet can be called with.
Keys == {"", "p1", "p2"}

NoCalls == [process |-> 0, get |-> 0, post |-> 0, hset |-> 0, publish |-> 0]
NoReturn == [caption |-> "", err |-> Nil]

\* No record is being encoded.
NoRoundTrip ==
    [stage |-> "none", rec |-> ZeroMetadata, wire |-> Malformed,
     back |-> ZeroMetadata, err |-> FALSE]

WorkerInit ==
    /\ key \in {"", "secret"}
    /\ phase = "new"
    /\ ch = <<>>
    /\ spawned = 0
    /\ pc = [t \in Tasks |-> "idle"]
    /\ message = [t \in Tasks |-> Malformed]
    /\ metadata = [t \in Tasks |-> ZeroMetadata]
    /\ decodeErr = [t \in Tasks |-> FALSE]
    /\ photo = [t \in Tasks |-> "none"]
    /\ captionResponse = [t \in Tasks |-> ZeroResponse]
    /\ ret = [t \in Tasks |-> NoReturn]
    /\ store = [k \in Keys |-> <<>>]
    /\ sent = <<>>
    /\ extCount = 0
    /\ calls = [t \in Tasks |-> NoCalls]
    /\ failed = [t \in Tasks |-> {}]

Init ==
    /\ WorkerInit
    /\ roundTrip = NoRoundTrip

Count(t, what) == [calls EXCEPT ![t][what] = @ + 1]
Fail(t, what) == [failed EXCEPT ![t] = @ \cup {what}]

\* ----------------------------------------------------------------- startup

\* NewWorker without the test of the key.
NewWorkerWithoutKeyCheck ==
    /\ phase = "new"
    /\ phase' = "serving"
    /\ UNCHANGED <<key, ch, spawned, pc, message, metadata, decodeErr, photo,
                   captionResponse, ret, store, sent, extCount, calls, failed,
                   roundTrip>>

\* NewWorker: log.Fatal when the key is empty, else connect, subscribe and
\* enter the range loop of setupRedis.
NewWorker ==
    /\ phase = "new"
    /\ phase' = IF key = "" THEN "fatal" ELSE "serving"
    /\ UNCHANGED <<key, ch, spawned, pc, message, metadata, decodeErr, photo,
                   captionResponse, ret, store, sent, extCount, calls, failed>>
    /\ UNCHANGED roundTrip

\* Another producer publishes p on the channel.  Pub/sub keeps nothing: a
\* message published while the worker is not subscribed is not received.
\* Producers stop once the model holds as many messages as it can dispatch.
ExtPublish(p) ==
    /\ extCount < MaxExt
    /\ spawned + Len(ch) < MaxTasks
    /\ extCount' = extCount + 1
    /\ ch' = IF phase = "serving" THEN Append(ch, p) ELSE ch
    /\ UNCHANGED <<key, phase, spawned, pc, message, metadata, decodeErr,
                   photo, captionResponse, ret, store, sent, calls, failed>>
    /\ UNCHANGED roundTrip

\* The goroutines between the test of the caption and their end.
InFlight == {u \in Tasks : pc[u] \in {"getPhoto", "post", "hset", "publish"}}

\* An intake loop that calls handleRedis itself (no go statement): the next
\* message is taken when the handling of the one before has ended.
DispatchInline ==
    /\ phase = "serving"
    /\ ch # <<>>
    /\ spawned < MaxTasks
    /\ \A u \in Tasks : pc[u] \in {"idle", "done"}
    /\ spawned' = spawned + 1
    /\ ch' = Tail(ch)
    /\ pc' = [pc EXCEPT ![spawned + 1] = "start"]
    /\ message' = [message EXCEPT ![spawned + 1] = Head(ch)]
    /\ UNCHANGED <<key, phase, metadata, decodeErr, photo, captionResponse,
                   ret, store, sent, extCount, calls, failed, roundTrip>>

\* for message := range ch { go worker.handleRedis(message) }
Dispatch ==
    /\ phase = "serving"
    /\ ch # <<>>
    /\ spawned < MaxTasks
    /\ spawned' = spawned + 1
    /\ ch' = Tail(ch)
    /\ pc' = [pc EXCEPT ![spawned + 1] = "start"]
    /\ message' = [message EXCEPT ![spawned + 1] = Head(ch)]
    /\ UNCHANGED <<key, phase, metadata, decodeErr, photo, captionResponse,
                   ret, store, sent, extCount, calls, failed>>
    /\ UNCHANGED roundTrip

\* ------------------------------------------------------------- handleRedis

\* The test of the caption left out: every record is enriched.
NoGate(m) == TRUE

\* len(metadata.Caption) == 0: the record is to be enriched.
NeedsCaption(m) == m.Caption = ""

\* A gate that lets one goroutine at a time enrich a photoId.
AfterDecodeSingleFlight(err, m) ==
    IF m.Caption = "" /\ ~\E u \in InFlight : metadata[u].PhotoId = m.PhotoId
    THEN "getPhoto"
    ELSE "done"

\* Where handleRedis goes once json.Unmarshal has returned: the error is
\* logged and nothing else is done about it, so the test of the caption is
\* reached with whatever Unmarshal left in metadata.
AfterDecode(err, m) == IF NeedsCaption(m) THEN "getPhoto" ELSE "done"

\* The first step of a goroutine: decode the payload and test the caption.
\* With an empty caption it enters process, which starts with getPhoto.
HandleRedis(t) ==
    /\ phase = "serving"
    /\ pc[t] = "start"
    /\ LET d == Unmarshal(message[t])
           next == AfterDecode(d.err, d.metadata)
       IN  /\ metadata' = [metadata EXCEPT ![t] = d.metadata]
           /\ decodeErr' = [decodeErr EXCEPT ![t] = d.err]
           /\ pc' = [pc EXCEPT ![t] = next]
           /\ calls' = IF next = "getPhoto" THEN Count(t, "process") ELSE calls
    /\ UNCHANGED <<key, phase, ch, spawned, message, photo, captionResponse,
                   ret, store, sent, extCount, failed>>
    /\ UNCHANGED roundTrip

\* The results http.Get can have for a URI: without a host the request is
\* refused by the client itself, with an error and a nil response.
GetResults(uri) == IF Host(uri) = "" THEN {"nil"} ELSE HttpResults

\* What becomes of the goroutine once getPhoto has returned resp: process
\* reads resp.Body unconditionally, a nil resp is a nil pointer dereference.
AfterGetPhoto(r) == IF r = "nil" THEN "panic" ELSE "post"

\* getPhoto(metadata.PhotoUrl) and the building of the multipart body.  The
\* host test and the error of http.Get are logged only; resp is returned as
\* it is.
GetPhoto(t, r) ==
    /\ phase = "serving"
    /\ pc[t] = "getPhoto"
    /\ r \in GetResults(metadata[t].PhotoUrl)
    /\ photo' = [photo EXCEPT ![t] = r]
    /\ calls' = Count(t, "get")
    /\ IF AfterGetPhoto(r) = "panic"
       THEN /\ phase' = "crashed"
            /\ pc' = pc
       ELSE /\ phase' = phase
            /\ pc' = [pc EXCEPT ![t] = AfterGetPhoto(r)]
    /\ UNCHANGED <<key, ch, spawned, message, metadata, decodeErr,
                   captionResponse, ret, store, sent, extCount, failed>>
    /\ UNCHANGED roundTrip

\* captionErr made with a fixed message instead of the text of Err.
CaptionErrGeneric(resp) == IF resp.Err # "" THEN NewError("caption api error") ELSE Nil

\* captionErr of process: an error made of Err when Err is not empty.
CaptionErr(resp) == IF resp.Err # "" THEN NewError(resp.Err) ELSE Nil

\* return captionResponse.Output, captionErr
ProcessReturn(resp) == [caption |-> resp.Output, err |-> CaptionErr(resp)]

\* handleRedis logging the error of process without the return.
AfterProcessIgnoresErr(err) == "hset"

\* handleRedis publishing without the store write.
AfterProcessSkipsHSet(err) == IF err # Nil THEN "done" ELSE "publish"

\* handleRedis on the return of process: log and return on an error, else
\* go on to the store write.
AfterProcess(err) == IF err # Nil THEN "done" ELSE "hset"

\* One metadata variable shared by all goroutines instead of a local one.
SetCaptionShared(md, t, caption) ==
    [u \in Tasks |-> [md[u] EXCEPT !.Caption = caption]]

\* metadata.Caption = caption, on the local variable of goroutine t.
SetCaption(md, t, caption) == [md EXCEPT ![t].Caption = caption]

\* What becomes of the goroutine once client.Do has returned res: the
\* error is logged only and res.Body is read, a nil res is a nil pointer
\* dereference.
AfterDo(r) == IF r = "nil" THEN "panic" ELSE "decode"

\* The rest of process, from client.Do on, and handleRedis up to the HSet
\* call.  r is how the POST ended and b the body of the answer when it has
\* a readable one; a closed body fails to decode and leaves the zero value.
Post(t, r, b) ==
    /\ phase = "serving"
    /\ pc[t] = "post"
    /\ calls' = Count(t, "post")
    /\ failed' = IF r = "ok" THEN failed ELSE Fail(t, "post")
    /\ IF AfterDo(r) = "panic"
       THEN /\ phase' = "crashed"
            /\ UNCHANGED <<pc, captionResponse, ret, metadata, photo>>
       ELSE LET decoded == IF r = "ok" THEN DecodeResponse(b) ELSE ZeroResponse
                result == ProcessReturn(decoded)
                next == AfterProcess(result.err)
            IN  /\ phase' = phase
                /\ photo' = [photo EXCEPT ![t] = "none"]
                /\ captionResponse' = [captionResponse EXCEPT ![t] = decoded]
                /\ ret' = [ret EXCEPT ![t] = result]
                /\ pc' = [pc EXCEPT ![t] = next]
                /\ metadata' = IF next = "hset"
                               THEN SetCaption(metadata, t, result.caption)
                               ELSE metadata
    /\ UNCHANGED <<key, ch, spawned, message, decodeErr, store, sent,
                   extCount>>
    /\ UNCHANGED roundTrip

\* handleRedis returning when HSet fails.
AfterHSetReturnsOnErr(ok) == IF ok THEN "publish" ELSE "done"

\* handleRedis calling HSet again when it fails.
AfterHSetRetries(ok) == IF ok THEN "publish" ELSE "hset"

\* handleRedis after HSet: its error is logged and the publish follows.
AfterHSet(ok) == "publish"

\* HSet with a misspelt field name: the caption field is left as it was.
HSetOtherField(st, k, caption) == st

\* The effect of HSet(k, "caption", caption) on the hashes of the store.
HSetField(st, k, caption) == [st EXCEPT ![k] = <<caption>>]

\* worker.redis.HSet(metadata.PhotoId, "caption", caption)
HSet(t, ok) ==
    /\ phase = "serving"
    /\ pc[t] = "hset"
    /\ calls' = Count(t, "hset")
    /\ failed' = IF ok THEN failed ELSE Fail(t, "hset")
    /\ store' = IF ok
                THEN HSetField(store, metadata[t].PhotoId, ret[t].caption)
                ELSE store
    /\ pc' = [pc EXCEPT ![t] = AfterHSet(ok)]
    /\ UNCHANGED <<key, phase, ch, spawned, message, metadata, decodeErr,
                   photo, captionResponse, ret, sent, extCount>>
    /\ UNCHANGED roundTrip

\* handleRedis publishing again when Publish fails.
AfterPublishRetries(ok) == IF ok THEN "done" ELSE "publish"

\* handleRedis after Publish: its error is logged and the function ends.
AfterPublish(ok) == "done"

\* json.Marshal(&metadata) and worker.redis.Publish(channel, meta).  Marshal
\* cannot fail for this struct.  The worker is subscribed to the channel it
\* publishes on, so a published message comes back on ch.
Publish(t, ok) ==
    /\ phase = "serving"
    /\ pc[t] = "publish"
    /\ calls' = Count(t, "publish")
    /\ failed' = IF ok THEN failed ELSE Fail(t, "publish")
    /\ LET meta == Marshal(metadata[t])
       IN  /\ sent' = IF ok THEN Append(sent, [task |-> t, payload |-> meta]) ELSE sent
           /\ ch' = IF ok THEN Append(ch, meta) ELSE ch
    /\ pc' = [pc EXCEPT ![t] = AfterPublish(ok)]
    /\ UNCHANGED <<key, phase, spawned, message, metadata, decodeErr, photo,
                   captionResponse, ret, store, extCount>>
    /\ UNCHANGED roundTrip

Next ==
    \/ NewWorker
    \/ \E p \in ExtPayloads : ExtPublish(p)
    \/ Dispatch
    \/ \E t \in Tasks : HandleRedis(t)
    \/ \E t \in Tasks : \E r \in HttpResults : GetPhoto(t, r)
    \/ \E t \in Tasks : \E r \in HttpResults : \E b \in ApiBodies : Post(t, r, b)
    \/ \E t \in Tasks : \E ok \in BOOLEAN : HSet(t, ok)
    \/ \E t \in Tasks : \E ok \in BOOLEAN : Publish(t, ok)

Spec == Init /\ [][Next]_vars

\* ---------------------------------------------------- the wire format alone

\* The PhotoMetadata values a record is drawn from: zero values, ordinary
\* values, and strings that are not valid UTF-8.
Records ==
    [ChatId : {0, 7},
     PhotoUrl : {"", GoodUrl},
     Caption : {"", "a dog running", BadUtf8},
     StyledUrl : {"", "s.jpg", BadUtf8},
     Published : BOOLEAN,
     PhotoId : {"", "p1"}]

InitRoundTrip ==
    /\ WorkerInit
    /\ roundTrip \in {[NoRoundTrip EXCEPT !.stage = "record", !.rec = r] : r \in Records}

\* meta, err := json.Marshal(&metadata)
EncodeRecord ==
    /\ roundTrip.stage = "record"
    /\ roundTrip' = [roundTrip EXCEPT !.stage = "encoded", !.wire = Marshal(roundTrip.rec)]
    /\ UNCHANGED workerVars

\* err := json.Unmarshal([]byte(message.Payload), &metadata)
DecodeRecord ==
    /\ roundTrip.stage = "encoded"
    /\ roundTrip' = [roundTrip EXCEPT !.stage = "decoded",
                                      !.back = Unmarshal(roundTrip.wire).metadata,
                                      !.err = Unmarshal(roundTrip.wire).err]
    /\ UNCHANGED workerVars

NextRoundTrip == EncodeRecord \/ DecodeRecord

\* A record encoded to the wire format and decoded again.
SpecRoundTrip == InitRoundTrip /\ [][NextRoundTrip]_vars

TypeOK ==
    /\ phase \in {"new", "serving", "fatal", "crashed"}
    /\ spawned \in 0..MaxTasks
    /\ extCount \in 0..MaxExt
    /\ \A t \in Tasks : pc[t] \in {"idle", "start", "getPhoto", "post", "hset", "publish", "done"}
    /\ \A t \in Tasks : metadata[t].PhotoId \in Keys

\* ------------------------------------------------------ derived quantities

\* The record handleRedis decoded from the message of goroutine t.
Inbound(t) == Unmarshal(message[t]).metadata

\* Goroutine t has been started (its message is the one it was given).
Started(t) == pc[t] # "idle"

\* The positions in sent of the messages goroutine t published.
SentBy(t) == {i \in DOMAIN sent : sent[i].task = t}

\* Calls of one kind made by the goroutines 1..n together.
RECURSIVE TotalCalls(_, _)
TotalCalls(n, what) ==
    IF n = 0 THEN 0 ELSE calls[n][what] + TotalCalls(n - 1, what)

\* ------------------------------------------------------------------ claims

\* C1: a message that decodes to a record with a non-empty caption makes its
\* goroutine call neither process (no image GET, no captioning POST) nor
\* HSet nor Publish: it ends without having done anything.
C1_GateDiscardsCaptioned ==
    \A t \in Tasks :
        (Started(t) /\ Inbound(t).Caption # "") =>
            /\ calls[t] = NoCalls
            /\ pc[t] \in {"start", "done"}
            /\ SentBy(t) = {}

\* Scenario B: a record the worker republished with its caption set came
\* back on the channel and its goroutine ended without a single call.
C1_Witness ==
    \E t \in Tasks : \E i \in DOMAIN sent :
        /\ message[t] = sent[i].payload
        /\ sent[i].task # t
        /\ Inbound(t).Caption # ""
        /\ pc[t] = "done"
        /\ calls[t] = NoCalls

\* C2 (as claimed): every message the worker published carries a non-empty
\* caption, whatever the captioning service answered.  Stated for the
\* goroutines whose payload decoded without an error.
C2_PublishedHasCaption ==
    \A i \in DOMAIN sent :
        ~decodeErr[sent[i].task] =>
            Unmarshal(sent[i].payload).metadata.Caption # ""

\* C3 (as claimed, its bound on the calls): process is never called more
\* often than other producers have published messages.  Stated for the runs
\* in which every payload decoded without an error.  The loop that refutes
\* it is the one that keeps the system from reaching quiescence.
C3_CallsBoundedByExternal ==
    (\A t \in Tasks : ~decodeErr[t]) =>
        TotalCalls(MaxTasks, "process") <= extCount

\* C4 (as claimed): a goroutine whose payload failed to decode stops there:
\* it calls neither process nor HSet nor Publish, and the worker stays up.
C4_DecodeFailureDrops ==
    \A t \in Tasks :
        (pc[t] \notin {"idle", "start"} /\ decodeErr[t]) =>
            /\ calls[t] = NoCalls
            /\ pc[t] = "done"
            /\ phase = "serving"

\* C5: when the service answered goroutine t with a non-empty Err, t has
\* ended after one GET and one POST, has made no HSet and no Publish call,
\* and nothing of it is on the channel again.
C5_ApiErrorAborts ==
    \A t \in Tasks :
        captionResponse[t].Err # "" =>
            /\ pc[t] = "done"
            /\ calls[t] = [NoCalls EXCEPT !.process = 1, !.get = 1, !.post = 1]
            /\ SentBy(t) = {}
            /\ failed[t] = {}

\* Scenario C: the service answered Output "" and Err "invalid image", the
\* goroutine has ended and the store holds nothing under its photoId.
C5_Witness ==
    \E t \in Tasks :
        /\ captionResponse[t] = [Output |-> "", Job_id |-> 0, Err |-> "invalid image"]
        /\ pc[t] = "done"
        /\ store[Inbound(t).PhotoId] = <<>>

\* C6 (as claimed): a goroutine that entered process with a URL without a
\* host, or whose GET failed, goes no further than the fetch: no POST, no
\* HSet, no Publish, and the worker process stays up.  Stated for the
\* goroutines whose payload decoded without an error.
C6_FetchFailureAborts ==
    \A t \in Tasks :
        (/\ calls[t].process > 0
         /\ ~decodeErr[t]
         /\ \/ Host(Inbound(t).PhotoUrl) = ""
            \/ photo[t] \in {"nil", "closed"}) =>
            /\ phase = "serving"
            /\ pc[t] \in {"getPhoto", "done"}
            /\ calls[t].post = 0
            /\ calls[t].hset = 0
            /\ calls[t].publish = 0

\* C7 (as claimed): when the POST of goroutine t failed in transport,
\* process returned an error to it, it ended with no HSet and no Publish,
\* and the worker process stays up.  Stated for the goroutines whose
\* payload decoded without an error.
C7_PostFailureAborts ==
    \A t \in Tasks :
        ("post" \in failed[t] /\ ~decodeErr[t]) =>
            /\ phase = "serving"
            /\ ret[t].err # Nil
            /\ pc[t] = "done"
            /\ calls[t].hset = 0
            /\ calls[t].publish = 0

\* C8: a goroutine whose HSet failed goes on to the publish: it never ends
\* without having called Publish, and when that call succeeds the message
\* published carries the caption process returned.
C8_PersistFailureStillPublishes ==
    \A t \in Tasks :
        "hset" \in failed[t] =>
            /\ pc[t] \in {"publish", "done"}
            /\ pc[t] = "done" => calls[t].publish = 1
            /\ (pc[t] = "done" /\ "publish" \notin failed[t]) =>
                   \E i \in SentBy(t) :
                       sent[i].payload.caption = JStr(captionResponse[t].Output)

\* The store write of a goroutine failed, the store holds nothing under its
\* photoId, and its record with the caption is published all the same.
C8_Witness ==
    \E t \in Tasks : \E i \in SentBy(t) :
        /\ "hset" \in failed[t]
        /\ pc[t] = "done"
        /\ store[Inbound(t).PhotoId] = <<>>
        /\ sent[i].payload.caption = JStr("a dog running")

\* Goroutine t enriched its record with no failure on the way: the caption
\* of its message was empty, the service answered with an empty Err, and
\* the POST, the HSet and the Publish all succeeded.
Enriched(t) ==
    /\ pc[t] = "done"
    /\ Inbound(t).Caption = ""
    /\ calls[t].post = 1
    /\ captionResponse[t].Err = ""
    /\ failed[t] = {}

\* Another goroutine than t has written the store under key k.
OtherWriter(t, k) ==
    \E u \in Tasks \ {t} :
        /\ Inbound(u).PhotoId = k
        /\ calls[u].hset > 0
        /\ "hset" \notin failed[u]

\* C9: a goroutine that enriched its record with caption c = Output has
\* published exactly one message, which decodes to the inbound record with
\* Caption c and the five other fields as received, and the store holds c
\* under the photoId of the record unless another goroutine wrote that key.
C9_SuccessfulEnrichment ==
    \A t \in Tasks :
        Enriched(t) =>
            LET c == captionResponse[t].Output
                in == Inbound(t)
            IN  /\ Cardinality(SentBy(t)) = 1
                /\ calls[t].hset = 1
                /\ calls[t].publish = 1
                /\ \A i \in SentBy(t) :
                       /\ sent[i].payload.ok
                       /\ Unmarshal(sent[i].payload).metadata = [in EXCEPT !.Caption = c]
                       /\ ~Unmarshal(sent[i].payload).err
                /\ \/ store[in.PhotoId] = <<c>>
                   \/ OtherWriter(t, in.PhotoId)

\* Scenario A: the raw record of p1 was enriched with "a dog running"; the
\* store holds that caption under p1 and the message published is the
\* record with the caption and chat_id, styled_url and published as sent.
C9_Witness ==
    \E t \in Tasks : \E i \in SentBy(t) :
        /\ Enriched(t)
        /\ message[t] = Doc(JNum(7), JStr(GoodUrl), JStr(""), JStr("s.jpg"), JBool(TRUE), JStr("p1"))
        /\ captionResponse[t].Output = "a dog running"
        /\ store["p1"] = <<"a dog running">>
        /\ sent[i].payload = Doc(JNum(7), JStr(GoodUrl), JStr("a dog running"), JStr("s.jpg"), JBool(TRUE), JStr("p1"))
        /\ ~OtherWriter(t, "p1")

\* C10 (as claimed): for an answer with a non-empty Err, process returns an
\* error whose message is Err, and no caption.
C10_ErrorWithoutCaption ==
    \A t \in Tasks :
        captionResponse[t].Err # "" =>
            /\ ret[t].err = NewError(captionResponse[t].Err)
            /\ ret[t].caption = ""

\* C10 (amended): for an answer with a non-empty Err, process returns an
\* error whose message is Err, and with it the Output text unchanged;
\* handleRedis does not use that text: metadata.Caption stays empty and the
\* text is neither stored nor published.
C10_ErrorReturnsOutputUnused ==
    \A t \in Tasks :
        captionResponse[t].Err # "" =>
            /\ ret[t].err = NewError(captionResponse[t].Err)
            /\ ret[t].caption = captionResponse[t].Output
            /\ metadata[t].Caption = ""
            /\ calls[t].hset = 0
            /\ calls[t].publish = 0

\* The service answered with an Err and a non-empty Output: process has
\* returned both, and the goroutine has ended.
C10_Witness ==
    \E t \in Tasks :
        /\ captionResponse[t].Err = "invalid image"
        /\ captionResponse[t].Output = "a cat"
        /\ ret[t] = [caption |-> "a cat", err |-> NewError("invalid image")]
        /\ pc[t] = "done"

\* C11: the gate looks at the message alone: every goroutine whose decoded
\* caption is empty calls process, whatever other goroutines are doing for
\* the same photoId, and none of its later calls waits for another
\* goroutine (no single flight per photoId).
C11_NoSingleFlight ==
    \A t \in Tasks :
        (pc[t] \notin {"idle", "start"} /\ Inbound(t).Caption = "") =>
            /\ calls[t].process = 1
            /\ (phase = "serving" /\ pc[t] = "getPhoto") =>
                   ENABLED GetPhoto(t, "nil")
            /\ (phase = "serving" /\ pc[t] = "post") =>
                   ENABLED Post(t, "ok", ApiMalformed)
            /\ (phase = "serving" /\ pc[t] = "hset") => ENABLED HSet(t, TRUE)
            /\ (phase = "serving" /\ pc[t] = "publish") => ENABLED Publish(t, TRUE)

\* The race: two messages of other producers with the same photoId and no
\* caption were both captioned, stored and republished.  Goroutine u wrote
\* the store after t did and published before t did, so both were between
\* their HSet and their Publish at once.
C11_Witness ==
    \E t, u \in Tasks :
        /\ t # u
        /\ Inbound(t).PhotoId = Inbound(u).PhotoId
        /\ Inbound(t).Caption = "" /\ Inbound(u).Caption = ""
        /\ \A i \in DOMAIN sent : sent[i].payload \notin {message[t], message[u]}
        /\ calls[t].post = 1 /\ calls[u].post = 1
        /\ calls[t].hset = 1 /\ calls[u].hset = 1
        /\ failed[t] = {} /\ failed[u] = {}
        /\ captionResponse[t].Output = "a dog running"
        /\ captionResponse[u].Output = "a cat"
        /\ store[Inbound(t).PhotoId] = <<"a cat">>
        /\ Len(sent) = 2
        /\ sent[1].task = u
        /\ sent[2].task = t

\* C12: the intake loop never waits for a goroutine: while the worker
\* serves, a message received is handed to a new goroutine whatever the
\* goroutines before it are doing (up to the MaxTasks goroutines of the
\* model), and a goroutine that was started can take its first step at once.
C12_DispatchNeverWaits ==
    /\ (phase = "serving" /\ ch # <<>> /\ spawned < MaxTasks) => ENABLED Dispatch
    /\ \A t \in Tasks :
           (phase = "serving" /\ pc[t] = "start") => ENABLED HandleRedis(t)

\* Every goroutine the model can start is in flight at once, the first one
\* still in its image GET while the last one has got to its POST.
C12_Witness ==
    /\ InFlight = Tasks
    /\ pc[1] = "getPhoto"
    /\ pc[MaxTasks] = "post"
    /\ \A t \in Tasks : pc[t] \in {"getPhoto", "post"}

\* C13: with an empty captioning API key the worker never serves: it never
\* subscribes (nothing is received on ch), starts no goroutine, and makes
\* no call, store write or publish.
C13_NoKeyNeverServes ==
    key = "" =>
        /\ phase \in {"new", "fatal"}
        /\ ch = <<>>
        /\ spawned = 0
        /\ \A t \in Tasks : pc[t] = "idle" /\ calls[t] = NoCalls
        /\ sent = <<>>
        /\ \A k \in Keys : store[k] = <<>>

\* The worker was started without a key and has aborted; producers have
\* published all their messages and none was received.
C13_Witness ==
    /\ key = ""
    /\ phase = "fatal"
    /\ extCount = MaxExt
    /\ ch = <<>>

\* C14 (as claimed): a record encoded and decoded again equals the original
\* in all six fields, for every combination of field values.
C14_RoundTripLossless ==
    roundTrip.stage = "decoded" =>
        /\ ~roundTrip.err
        /\ roundTrip.back = roundTrip.rec

\* The string fields of a record are all valid UTF-8.
StringsValid(m) ==
    /\ ValidUTF8(m.PhotoUrl)
    /\ ValidUTF8(m.Caption)
    /\ ValidUTF8(m.StyledUrl)
    /\ ValidUTF8(m.PhotoId)

\* C14 (amended): a record whose string fields are valid UTF-8 is decoded
\* back equal to the original in all six fields, empty strings, false and 0
\* included; a string field that is not valid UTF-8 comes back with U+FFFD
\* in place of its invalid bytes, the other fields unchanged.
C14_RoundTripValidStrings ==
    roundTrip.stage = "decoded" =>
        /\ ~roundTrip.err
        /\ StringsValid(roundTrip.rec) => roundTrip.back = roundTrip.rec
        /\ roundTrip.back =
               [roundTrip.rec EXCEPT !.Caption = ToValidUTF8(@),
                                     !.StyledUrl = ToValidUTF8(@),
                                     !.PhotoUrl = ToValidUTF8(@),
                                     !.PhotoId = ToValidUTF8(@)]

\* The record of zero values (empty strings, published false, chatId 0)
\* has been encoded with all six keys and decoded back to itself.
C14_Witness ==
    /\ roundTrip.stage = "decoded"
    /\ roundTrip.rec = ZeroMetadata
    /\ roundTrip.wire = Doc(JNum(0), JStr(""), JStr(""), JStr(""), JBool(FALSE), JStr(""))
    /\ roundTrip.back = ZeroMetadata

\* C15: a goroutine makes each of its calls at most once, whatever fails:
\* at most one call of process, one image GET, one captioning POST, one
\* HSet and one Publish, and at most one message of it is published.
C15_NothingRetried ==
    \A t \in Tasks :
        /\ calls[t].process <= 1
        /\ calls[t].get <= 1
        /\ calls[t].post <= 1
        /\ calls[t].hset <= 1
        /\ calls[t].publish <= 1
        /\ Cardinality(SentBy(t)) <= 1

\* A goroutine whose HSet and Publish both failed has ended, each of its
\* calls made once.
C15_Witness ==
    \E t \in Tasks :
        /\ failed[t] = {"hset", "publish"}
        /\ pc[t] = "done"
        /\ calls[t] = [process |-> 1, get |-> 1, post |-> 1, hset |-> 1, publish |-> 1]

\* C16: a goroutine whose Publish failed has ended after that one Publish
\* call with no message published; the caption its HSet wrote under the
\* photoId is still in the store (unless another goroutine wrote that key).
C16_PublishFailureLoggedOnly ==
    \A t \in Tasks :
        "publish" \in failed[t] =>
            /\ pc[t] = "done"
            /\ calls[t].publish = 1
            /\ SentBy(t) = {}
            /\ "hset" \notin failed[t] =>
                   /\ calls[t].hset = 1
                   /\ \/ store[Inbound(t).PhotoId] = <<ret[t].caption>>
                      \/ OtherWriter(t, Inbound(t).PhotoId)

\* The store holds "a dog running" under p1, written by a goroutine whose
\* Publish failed; no message was ever published by the worker.
C16_Witness ==
    \E t \in Tasks :
        /\ failed[t] = {"publish"}
        /\ pc[t] = "done"
        /\ Inbound(t).PhotoId = "p1"
        /\ store["p1"] = <<"a dog running">>
        /\ sent = <<>>

\* C17: every message published by a goroutine whose HSet succeeded was
\* published after that HSet: the goroutine has made its HSet call and the
\* store holds a caption field under the photoId of the message.
C17_PersistBeforeRepublish ==
    \A i \in DOMAIN sent :
        LET t == sent[i].task
        IN  "hset" \notin failed[t] =>
                /\ calls[t].hset = 1
                /\ store[Unmarshal(sent[i].payload).metadata.PhotoId] # <<>>

\* A republished record of p1 is on the channel, not yet taken by the
\* intake loop, and the store holds its caption under p1.
C17_Witness ==
    \E i \in DOMAIN sent :
        /\ "hset" \notin failed[sent[i].task]
        /\ ch = <<sent[i].payload>>
        /\ sent[i].payload.photo_id = JStr("p1")
        /\ sent[i].payload.caption = JStr("a cat")
        /\ store["p1"] = <<"a cat">>

\* C18: goroutines do not see each other's variables: after the decode the
\* metadata of a goroutine is the record it decoded, with the caption of its
\* own process call once that is set, and a message it published decodes to
\* that record with that caption.
C18_TaskIsolation ==
    /\ \A t \in Tasks :
           pc[t] \in {"getPhoto", "post"} => metadata[t] = Inbound(t)
    /\ \A t \in Tasks :
           pc[t] \in {"hset", "publish"} =>
               metadata[t] = [Inbound(t) EXCEPT !.Caption = captionResponse[t].Output]
    /\ \A i \in DOMAIN sent :
           Unmarshal(sent[i].payload).metadata =
               [Inbound(sent[i].task) EXCEPT
                    !.Caption = captionResponse[sent[i].task].Output]

\* Two goroutines that were alive at once (the one started later published
\* first) received different records and different captions, and each
\* published its own record with its own caption.
C18_Witness ==
    /\ Len(sent) = 2
    /\ sent[1].task = 2
    /\ sent[2].task = 1
    /\ Inbound(1).ChatId # Inbound(2).ChatId
    /\ captionResponse[1].Output = "a cat"
    /\ captionResponse[2].Output = "a dog running"
    /\ Unmarshal(sent[1].payload).metadata = [Inbound(2) EXCEPT !.Caption = "a dog running"]
    /\ Unmarshal(sent[2].payload).metadata = [Inbound(1) EXCEPT !.Caption = "a cat"]

\* The goroutines started for photoId k.
TasksFor(k) == {t \in Tasks : Started(t) /\ Inbound(t).PhotoId = k}

\* The positions in sent of the messages republished for photoId k.
SentFor(k) == {i \in DOMAIN sent : Unmarshal(sent[i].payload).metadata.PhotoId = k}

\* The caption carried by the message at position i of sent.
CaptionOf(i) == Unmarshal(sent[i].payload).metadata.Caption

\* The position of the last (first) message republished for photoId k.
LastFor(k) == CHOOSE i \in SentFor(k) : \A j \in SentFor(k) : j <= i
FirstFor(k) == CHOOSE i \in SentFor(k) : \A j \in SentFor(k) : i <= j

\* Every goroutine for photoId k has ended, none of their HSet and Publish
\* calls failed, and at least one message was republished for k.
Settled(k) ==
    /\ \A t \in TasksFor(k) : pc[t] = "done" /\ failed[t] \cap {"hset", "publish"} = {}
    /\ SentFor(k) # {}

\* C19 (as claimed): once every goroutine for a photoId has ended, with no
\* failed HSet or Publish, the caption stored under the photoId is the one
\* carried by the last message republished for it.  Stated for the
\* goroutines whose payload decoded without an error.
C19_StoreAgreesWithLastMessage ==
    \A k \in Keys :
        (Settled(k) /\ \A t \in TasksFor(k) : ~decodeErr[t]) =>
            store[k] = <<CaptionOf(LastFor(k))>>

\* C19 (amended): once every goroutine for a photoId has ended, with no
\* failed HSet or Publish, the caption stored under the photoId is the one
\* carried by one of the messages republished for it, which need not be the
\* last one.
C19_StoreAgreesWithSomeMessage ==
    \A k \in Keys :
        Settled(k) => \E i \in SentFor(k) : store[k] = <<CaptionOf(i)>>

\* Two messages with different captions were republished for a photoId,
\* every goroutine for it has ended without a failure, and the store holds
\* the caption of the first message, not of the last.
C19_Witness ==
    \E k \in Keys :
        /\ Settled(k)
        /\ Cardinality(SentFor(k)) = 2
        /\ store[k] = <<CaptionOf(FirstFor(k))>>
        /\ store[k] # <<CaptionOf(LastFor(k))>>

====
